---- MODULE Spec2Model ----
(***************************************************************************)
(* Model of the per-guild audio playback pipeline of the TTS bot:          *)
(* VoiceManager (voice_manager.py) and the join/leave commands of bot.py.  *)
(* One asyncio event loop: a step of the model is the code a task runs     *)
(* between two suspension points (await of network I/O, of a queue get, of *)
(* a sleep), so every action is atomic exactly where the code is.          *)
(***************************************************************************)
EXTENDS Integers, Sequences, FiniteSets, Bags, TLC

\* ---------------------------------------------------------------- bounds
NumRooms == 2        \* guilds
NumChannels == 2     \* voice channels of a guild
NumText == 1         \* text channels of a guild
MaxJobs == 2         \* play_audio calls issued in a run
MaxWorkers == 2      \* queue processor tasks alive in one guild

Rooms == 1..NumRooms
HomeGuilds == {1}    \* guilds the bot is a member of at start
Channels == 1..NumChannels
TextChannels == 1..NumText
VoiceStates == {0} \cup Channels    \* member.voice: no channel, or one

VARIABLES
    conn,                 \* guild.voice_client: [st, ch] per guild
    vcPlaying,            \* clip streaming on the guild's voice client, 0 = none
    hasQueue,             \* guild.id in self.audio_queue
    audio_queue,          \* items of self.audio_queue[guild.id]
    playing,              \* self.playing: "absent" or "False" (never set True)
    voice_text_channels,  \* bot.voice_text_channels: bound text channel, 0 = none
    workers,              \* bag of live _process_audio_queue tasks per guild
    joinT,                \* the join command task of a guild
    leaveT,               \* the leave command task of a guild
    enqT,                 \* the play_audio task of a guild
    nextJob,              \* id of the next job
    accepted,             \* history: jobs for which play_audio returned True
    handed,               \* history: jobs passed to _play_audio_data, in order;
                          \* j when its playback started, -j when it failed
    in_guild,             \* bot.get_guild(guild_id) finds the guild
    ret,                  \* outcome of the request that returned in the last step
    left,                 \* history: a leave command has ended and no join
                          \* command was issued since
    jobCh,                \* history: the voice channel of the author of the
                          \* message a job was made from, 0 = none
    jobAudio,             \* history: the audio_data on_message passed to
                          \* play_audio for a job, "none" = not from a message
    voice,                \* tts_handler.voice
    msg,                  \* the on_message handlers of a guild that await
                          \* generate_tts, in the order their messages came
    text,                 \* a text handed to clean_text, generate_tts or
                          \* autocorregir_mensaje
    result                \* what that function returned

vars == <<conn, vcPlaying, hasQueue, audio_queue, playing, voice_text_channels,
          workers, joinT, leaveT, enqT, nextJob, accepted, handed, in_guild, ret,
          left, jobCh, jobAudio, voice, msg, text, result>>

\* what the voice manager never touches
aux == <<jobAudio, voice, msg, text, result>>

\* ------------------------------------------------------- voice client model
NoConn == [st |-> "none", ch |-> 0]

\* `voice_client` is truthy: a VoiceClient is registered for the guild
Registered(r) == conn[r].st # "none"

\* `voice_client and voice_client.is_connected()`
IsConnected(r) == conn[r].st = "connected"

\* ------------------------------------------------------------ worker bag
RECURSIVE SumOver(_, _)
SumOver(B, S) ==
    IF S = {} THEN 0
    ELSE LET x == CHOOSE y \in S : TRUE IN B[x] + SumOver(B, S \ {x})

One(w) == SetToBag({w})

NumWorkers(r) == BagCardinality(workers[r])

NewWorker == [pc |-> "start", item |-> 0, vc |-> "none", q |-> "none"]

\* the VoiceClient object a task holds is disconnected for good
KillVc(w) == IF w.vc = "live" THEN [w EXCEPT !.vc = "dead"] ELSE w

\* the Queue object a task waits on is no longer the registered one
KillQ(w) == IF w.q = "live" THEN [w EXCEPT !.q = "dead"] ELSE w

\* the tasks of bag B once the object they hold (kind "vc": the VoiceClient,
\* kind "q": the Queue) is gone
KillAll(B, kind) ==
    LET F(w) == IF kind = "vc" THEN KillVc(w) ELSE KillQ(w)
        img == {F(x) : x \in DOMAIN B}
    IN [y \in img |-> SumOver(B, {x \in DOMAIN B : F(x) = y})]

IdleJoin == [pc |-> "idle", ch |-> 0, vc |-> "none"]
IdleEnq == [pc |-> "idle", ch |-> 0, job |-> 0, vc |-> "none"]
NoRet == [op |-> "none", room |-> 0, val |-> "none", via |-> "none"]

\* TTSHandler.__init__, line 20: the voice every message is spoken with
\* unless its author has a voice of their own
DefaultVoice == "es-ES-ElviraNeural"

\* on_message handlers of one guild that can await generate_tts at a time
MaxHandlers == 2

\* no message is being handled in the guild
NoMsg == <<>>

\* no function was applied yet
NoResult == [fn |-> "none"]

InitBase ==
    /\ conn = [r \in Rooms |-> NoConn]
    /\ vcPlaying = [r \in Rooms |-> 0]
    /\ hasQueue = [r \in Rooms |-> FALSE]
    /\ audio_queue = [r \in Rooms |-> <<>>]
    /\ playing = [r \in Rooms |-> "absent"]
    /\ voice_text_channels = [r \in Rooms |-> 0]
    /\ workers = [r \in Rooms |-> EmptyBag]
    /\ joinT = [r \in Rooms |-> IdleJoin]
    /\ leaveT = [r \in Rooms |-> "idle"]
    /\ enqT = [r \in Rooms |-> IdleEnq]
    /\ nextJob = 1
    /\ accepted = [r \in Rooms |-> <<>>]
    /\ handed = [r \in Rooms |-> <<>>]
    /\ ret = NoRet
    /\ left = [r \in Rooms |-> FALSE]
    /\ jobCh = [j \in 1..MaxJobs |-> 0]
    /\ jobAudio = [j \in 1..MaxJobs |-> "none"]
    /\ voice = DefaultVoice
    /\ msg = [r \in Rooms |-> NoMsg]

\* no function was applied to a text
NoCall == text = <<>> /\ result = NoResult

\* the bot is a member of one guild
Init == InitBase /\ NoCall /\ in_guild = [r \in Rooms |-> r \in HomeGuilds]

\* the bot is a member of its home guild and of one other guild
InitRooms ==
    /\ InitBase /\ NoCall
    /\ \E g \in Rooms \ HomeGuilds :
          in_guild = [r \in Rooms |-> r \in HomeGuilds \cup {g}]

\* ------------------------------------------------ effects on shared state
\* a VoiceClient of guild r stops for good (disconnect() or a dropped
\* connection): every task holding it sees is_connected() = False from now on
DisconnectEffects(r) ==
    /\ vcPlaying' = [vcPlaying EXCEPT ![r] = 0]
    /\ workers' = [workers EXCEPT ![r] = KillAll(@, "vc")]

TaskVcDead(t) == IF t.vc = "live" THEN [t EXCEPT !.vc = "dead"] ELSE t

\* asyncio.create_task(self._process_audio_queue(guild.id))
Spawn(W) == W (+) One(NewWorker)

\* join_channel, lines 45-52, after a successful channel.connect()
JoinInitQueue(r) ==
    LET flag == IF hasQueue[r] THEN playing[r] ELSE "False"
    IN /\ hasQueue' = [hasQueue EXCEPT ![r] = TRUE]
       /\ audio_queue' = [audio_queue EXCEPT ![r] = IF hasQueue[r] THEN @ ELSE <<>>]
       /\ playing' = [playing EXCEPT ![r] = flag]
       /\ workers' = [workers EXCEPT ![r] =
               IF flag = "absent" \/ flag # "True" THEN Spawn(@) ELSE @]

\* mutant of PutItem: the test of line 105 is skipped, every call registers
\* a fresh queue and spawns a worker
PutItem_mut(r, j, via) ==
    /\ NumWorkers(r) < MaxWorkers
    /\ hasQueue' = [hasQueue EXCEPT ![r] = TRUE]
    /\ playing' = [playing EXCEPT ![r] = "False"]
    /\ workers' = [workers EXCEPT ![r] = Spawn(@)]
    /\ audio_queue' = [audio_queue EXCEPT ![r] = <<j>>]
    /\ accepted' = [accepted EXCEPT ![r] = Append(@, j)]
    /\ ret' = [op |-> "play_audio", room |-> r, val |-> "True", via |-> via]

\* play_audio, lines 104-119: create queue and worker if the guild has no
\* queue, then put the item and return True
PutItem(r, j, via) ==
    /\ (~hasQueue[r]) => NumWorkers(r) < MaxWorkers
    /\ hasQueue' = [hasQueue EXCEPT ![r] = TRUE]
    /\ playing' = [playing EXCEPT ![r] = IF hasQueue[r] THEN @ ELSE "False"]
    /\ workers' = [workers EXCEPT ![r] = IF hasQueue[r] THEN @ ELSE Spawn(@)]
    /\ audio_queue' = [audio_queue EXCEPT ![r] =
            Append(IF hasQueue[r] THEN @ ELSE <<>>, j)]
    /\ accepted' = [accepted EXCEPT ![r] = Append(@, j)]
    /\ ret' = [op |-> "play_audio", room |-> r, val |-> "True", via |-> via]

\* ------------------------------------------------------------ join command
\* join_voice calls join_channel and then binds the text channel, whatever
\* join_channel returned (it returns None on failure, it does not raise);
\* tc is ctx.channel.id, which join_voice reads once join_channel is back
JoinReturn(r, tc, val, via) ==
    /\ voice_text_channels' = [voice_text_channels EXCEPT ![r] = tc]
    /\ joinT' = [joinT EXCEPT ![r] = IdleJoin]
    /\ ret' = [op |-> "join", room |-> r, val |-> val, via |-> via]

\* mutant of JoinSame: the same-channel case falls through to the queue
\* and worker initialisation of lines 45-52
JoinSame_mut(r, tc) ==
    /\ NumWorkers(r) < MaxWorkers
    /\ JoinReturn(r, tc, "handle", "same")
    /\ JoinInitQueue(r)
    /\ UNCHANGED <<conn, vcPlaying>>

\* join_channel, lines 31-34: already connected to the requested channel
JoinSame(r, tc) ==
    /\ JoinReturn(r, tc, "handle", "same")
    /\ UNCHANGED <<conn, vcPlaying, hasQueue, audio_queue, playing, workers>>

join_channel(r, ch, tc) ==
    /\ joinT[r].pc = "idle" /\ in_guild[r]
    /\ IF IsConnected(r) /\ conn[r].ch = ch
       THEN JoinSame(r, tc)
       ELSE IF IsConnected(r)
       THEN \* case 2: await voice_client.move_to(channel)
            /\ joinT' = [joinT EXCEPT ![r] =
                    [pc |-> "move", ch |-> ch, vc |-> "live"]]
            /\ UNCHANGED <<conn, vcPlaying, hasQueue, audio_queue, playing,
                           workers, voice_text_channels>>
            /\ ret' = NoRet
       ELSE IF Registered(r)
       THEN \* case 3, connect() raises: a client is already registered
            /\ JoinReturn(r, tc, "None", "connect")
            /\ UNCHANGED <<conn, vcPlaying, hasQueue, audio_queue, playing, workers>>
       ELSE \* case 3: await channel.connect()
            /\ NumWorkers(r) < MaxWorkers
            /\ conn' = [conn EXCEPT ![r] = [st |-> "connecting", ch |-> ch]]
            /\ joinT' = [joinT EXCEPT ![r] =
                    [pc |-> "connect", ch |-> ch, vc |-> "live"]]
            /\ UNCHANGED <<vcPlaying, hasQueue, audio_queue, playing,
                           workers, voice_text_channels>>
            /\ ret' = NoRet
    /\ UNCHANGED <<leaveT, enqT, nextJob, accepted, handed, in_guild>>
    /\ left' = [left EXCEPT ![r] = FALSE]
    /\ UNCHANGED <<jobCh, aux>>

join_connected(r, ok, tc) ==
    /\ joinT[r].pc = "connect"
    /\ ok => in_guild[r]
    /\ IF ok
       THEN /\ NumWorkers(r) < MaxWorkers
            /\ conn' = [conn EXCEPT ![r] = [st |-> "connected", ch |-> joinT[r].ch]]
            /\ JoinInitQueue(r)
            /\ JoinReturn(r, tc, "handle", "connect")
       ELSE /\ conn' = [conn EXCEPT ![r] = NoConn]
            /\ JoinReturn(r, tc, "None", "connect")
            /\ UNCHANGED <<hasQueue, audio_queue, playing, workers>>
    /\ UNCHANGED <<vcPlaying, leaveT, enqT, nextJob, accepted, handed, in_guild>>
    /\ UNCHANGED <<left, jobCh, aux>>

\* mutant of join_moved: after the move the code goes on to lines 45-52
\* instead of returning at line 39
join_moved_mut(r, ok, tc) ==
    /\ joinT[r].pc = "move"
    /\ NumWorkers(r) < MaxWorkers
    /\ conn' = [conn EXCEPT ![r] =
            IF ok /\ joinT[r].vc = "live" THEN [@ EXCEPT !.ch = joinT[r].ch] ELSE @]
    /\ JoinReturn(r, tc, IF ok THEN "handle" ELSE "None", "move")
    /\ JoinInitQueue(r)
    /\ UNCHANGED <<vcPlaying, leaveT, enqT, nextJob, accepted, handed, in_guild>>
    /\ UNCHANGED <<left, jobCh, aux>>

join_moved(r, ok, tc) ==
    /\ joinT[r].pc = "move"
    /\ conn' = [conn EXCEPT ![r] =
            IF ok /\ joinT[r].vc = "live" THEN [@ EXCEPT !.ch = joinT[r].ch] ELSE @]
    /\ JoinReturn(r, tc, IF ok THEN "handle" ELSE "None", "move")
    /\ UNCHANGED <<vcPlaying, hasQueue, audio_queue, playing, workers,
                   leaveT, enqT, nextJob, accepted, handed, in_guild>>
    /\ UNCHANGED <<left, jobCh, aux>>

\* ----------------------------------------------------------- leave command
\* mutant of LeaveNotConnected: without a connected client in this guild the
\* command disconnects the client of another guild
LeaveNotConnected_mut(r) ==
    /\ voice_text_channels' = [voice_text_channels EXCEPT ![r] = 0]
    /\ ret' = [op |-> "leave", room |-> r, val |-> "ok", via |-> "noop"]
    /\ IF \E r2 \in Rooms : IsConnected(r2)
       THEN \E r2 \in Rooms :
                /\ IsConnected(r2)
                /\ conn' = [conn EXCEPT ![r2] = NoConn]
                /\ DisconnectEffects(r2)
       ELSE UNCHANGED <<conn, vcPlaying, workers>>
    /\ UNCHANGED <<joinT, enqT, leaveT>>

\* leave_channel skips its body when the guild has no connected client;
\* leave_voice then unbinds the text channel and reports success
LeaveNotConnected(r) ==
    /\ voice_text_channels' = [voice_text_channels EXCEPT ![r] = 0]
    /\ ret' = [op |-> "leave", room |-> r, val |-> "ok", via |-> "noop"]
    /\ UNCHANGED <<conn, vcPlaying, workers, joinT, enqT, leaveT>>

leave_channel(r) ==
    /\ leaveT[r] = "idle" /\ in_guild[r]
    /\ IF IsConnected(r)
       THEN \* await voice_client.disconnect(): stops the player at once
            /\ conn' = [conn EXCEPT ![r] = [@ EXCEPT !.st = "closing"]]
            /\ DisconnectEffects(r)
            /\ joinT' = [joinT EXCEPT ![r] = TaskVcDead(@)]
            /\ enqT' = [enqT EXCEPT ![r] = TaskVcDead(@)]
            /\ leaveT' = [leaveT EXCEPT ![r] = "disconnect"]
            /\ UNCHANGED <<voice_text_channels>>
            /\ ret' = NoRet
       ELSE LeaveNotConnected(r)
    /\ UNCHANGED <<hasQueue, audio_queue, playing, nextJob, accepted, handed, in_guild>>
    /\ left' = [left EXCEPT ![r] = IF IsConnected(r) THEN @ ELSE TRUE]
    /\ UNCHANGED <<jobCh, aux>>

\* mutant of leave_disconnected: the clean-up of lines 69-79 is skipped, the
\* queue stays registered with its items
leave_disconnected_mut(r, ok) ==
    /\ leaveT[r] = "disconnect"
    /\ leaveT' = [leaveT EXCEPT ![r] = "idle"]
    /\ conn' = [conn EXCEPT ![r] = NoConn]
    /\ IF ok
       THEN /\ voice_text_channels' = [voice_text_channels EXCEPT ![r] = 0]
            /\ ret' = [op |-> "leave", room |-> r, val |-> "ok", via |-> "disconnect"]
       ELSE /\ ret' = [op |-> "leave", room |-> r, val |-> "error", via |-> "disconnect"]
            /\ UNCHANGED voice_text_channels
    /\ UNCHANGED <<hasQueue, audio_queue, playing, workers>>
    /\ UNCHANGED <<vcPlaying, joinT, enqT, nextJob, accepted, handed, in_guild>>
    /\ left' = [left EXCEPT ![r] = IF ok THEN TRUE ELSE @]
    /\ UNCHANGED <<jobCh, aux>>

leave_disconnected(r, ok) ==
    /\ leaveT[r] = "disconnect"
    /\ leaveT' = [leaveT EXCEPT ![r] = "idle"]
    /\ conn' = [conn EXCEPT ![r] = NoConn]
    /\ IF ok
       THEN \* lines 69-83, then leave_voice lines 272-274
            /\ hasQueue' = [hasQueue EXCEPT ![r] = FALSE]
            /\ audio_queue' = [audio_queue EXCEPT ![r] = <<>>]
            /\ playing' = [playing EXCEPT ![r] = IF hasQueue[r] THEN "absent" ELSE @]
            /\ workers' = [workers EXCEPT ![r] =
                    IF hasQueue[r] THEN KillAll(@, "q") ELSE @]
            /\ voice_text_channels' = [voice_text_channels EXCEPT ![r] = 0]
            /\ ret' = [op |-> "leave", room |-> r, val |-> "ok", via |-> "disconnect"]
       ELSE \* disconnect() raised: leave_channel re-raises, leave_voice reports
            /\ ret' = [op |-> "leave", room |-> r, val |-> "error", via |-> "disconnect"]
            /\ UNCHANGED <<hasQueue, audio_queue, playing, workers, voice_text_channels>>
    /\ UNCHANGED <<vcPlaying, joinT, enqT, nextJob, accepted, handed, in_guild>>
    /\ left' = [left EXCEPT ![r] = IF ok THEN TRUE ELSE @]
    /\ UNCHANGED <<jobCh, aux>>

\* ------------------------------------------------------------- play_audio
EnqReject(r, via) ==
    /\ enqT' = [enqT EXCEPT ![r] = IdleEnq]
    /\ ret' = [op |-> "play_audio", room |-> r, val |-> "False", via |-> via]
    /\ UNCHANGED <<hasQueue, audio_queue, playing, workers, accepted>>

\* play_audio(channel, audio_data, username), lines 89-123, up to its first
\* suspension or its return
PlayAudio(r, ch) ==
    /\ in_guild[r]
    /\ nextJob <= MaxJobs
    /\ nextJob' = nextJob + 1
    /\ IF IsConnected(r) /\ conn[r].ch = ch
       THEN /\ PutItem(r, nextJob, "same")
            /\ enqT' = [enqT EXCEPT ![r] = IdleEnq]
            /\ UNCHANGED conn
       ELSE IF IsConnected(r)
       THEN \* await voice_client.move_to(channel)
            /\ enqT' = [enqT EXCEPT ![r] =
                    [pc |-> "move", ch |-> ch, job |-> nextJob, vc |-> "live"]]
            /\ UNCHANGED <<conn, hasQueue, audio_queue, playing, workers, accepted>>
            /\ ret' = NoRet
       ELSE IF Registered(r)
       THEN \* channel.connect() raises: a client is already registered
            /\ EnqReject(r, "connect")
            /\ UNCHANGED conn
       ELSE \* await channel.connect()
            /\ conn' = [conn EXCEPT ![r] = [st |-> "connecting", ch |-> ch]]
            /\ enqT' = [enqT EXCEPT ![r] =
                    [pc |-> "connect", ch |-> ch, job |-> nextJob, vc |-> "live"]]
            /\ UNCHANGED <<hasQueue, audio_queue, playing, workers, accepted>>
            /\ ret' = NoRet
    /\ UNCHANGED <<vcPlaying, voice_text_channels, joinT, leaveT, handed, in_guild>>
    /\ UNCHANGED left

\* mutant of play_audio: channel.connect() starts a second client although
\* one is already registered for the guild
play_audio_mut(r, ch) ==
    /\ enqT[r].pc = "idle"
    /\ in_guild[r]
    /\ nextJob <= MaxJobs
    /\ nextJob' = nextJob + 1
    /\ IF IsConnected(r) /\ conn[r].ch = ch
       THEN /\ PutItem(r, nextJob, "same")
            /\ enqT' = [enqT EXCEPT ![r] = IdleEnq]
            /\ UNCHANGED conn
       ELSE IF IsConnected(r)
       THEN /\ enqT' = [enqT EXCEPT ![r] =
                    [pc |-> "move", ch |-> ch, job |-> nextJob, vc |-> "live"]]
            /\ UNCHANGED <<conn, hasQueue, audio_queue, playing, workers, accepted>>
            /\ ret' = NoRet
       ELSE /\ conn' = [conn EXCEPT ![r] = [st |-> "connecting", ch |-> ch]]
            /\ enqT' = [enqT EXCEPT ![r] =
                    [pc |-> "connect", ch |-> ch, job |-> nextJob, vc |-> "live"]]
            /\ UNCHANGED <<hasQueue, audio_queue, playing, workers, accepted>>
            /\ ret' = NoRet
    /\ UNCHANGED <<vcPlaying, voice_text_channels, joinT, leaveT, handed, in_guild>>
    /\ UNCHANGED <<left, jobCh, aux>>

\* play_audio called by the test command (bot.py lines 338-346), at any time
play_audio(r, ch) ==
    /\ enqT[r].pc = "idle"
    /\ PlayAudio(r, ch)
    /\ UNCHANGED <<jobCh, aux>>

play_audio_connected(r, ok) ==
    /\ enqT[r].pc = "connect"
    /\ ok => in_guild[r]
    /\ IF ok
       THEN /\ conn' = [conn EXCEPT ![r] = [st |-> "connected", ch |-> enqT[r].ch]]
            /\ PutItem(r, enqT[r].job, "connect")
            /\ enqT' = [enqT EXCEPT ![r] = IdleEnq]
       ELSE /\ conn' = [conn EXCEPT ![r] = NoConn]
            /\ EnqReject(r, "connect")
    /\ UNCHANGED <<vcPlaying, voice_text_channels, joinT, leaveT, nextJob, handed, in_guild>>
    /\ UNCHANGED <<left, jobCh, aux>>

play_audio_moved(r, ok) ==
    /\ enqT[r].pc = "move"
    /\ IF ok
       THEN /\ conn' = [conn EXCEPT ![r] =
                    IF enqT[r].vc = "live" THEN [@ EXCEPT !.ch = enqT[r].ch] ELSE @]
            /\ PutItem(r, enqT[r].job, "move")
            /\ enqT' = [enqT EXCEPT ![r] = IdleEnq]
       ELSE /\ EnqReject(r, "move")
            /\ UNCHANGED conn
    /\ UNCHANGED <<vcPlaying, voice_text_channels, joinT, leaveT, nextJob, handed, in_guild>>
    /\ UNCHANGED <<left, jobCh, aux>>

\* ------------------------------------------------------------------ texts
\* A text is a sequence of blocks, [c |-> class, n |-> number of characters]:
\* "letter" characters reach the provider, "space" is white space, "mention"
\* is a token that clean_text removes (a mention, a custom emoji, a code
\* block, a URL), "dot" is the full stop of the truncation marker.
MaxBlocks == 3

\* clean_text, line 55: the longest text that is sent whole
MaxLength == 500

Sizes == {1, 2, MaxLength \div 2, MaxLength - 1, MaxLength, MaxLength + 1}

Blocks == [c : {"letter", "space", "mention"}, n : Sizes]

SeqsUpTo(S, k) == UNION {[1..n -> S] : n \in 0..k}

Texts == SeqsUpTo(Blocks, MaxBlocks)

\* len(text)
RECURSIVE Length(_)
Length(t) == IF t = <<>> THEN 0 ELSE Head(t).n + Length(Tail(t))

\* clean_text, lines 39-50: the re.sub calls that delete what is not spoken
RemoveTokens(t) == SelectSeq(t, LAMBDA b : b.c # "mention")

\* clean_text, line 52, ' '.join(text.split()): white space at both ends is
\* dropped and every other run of white space becomes one space
RECURSIVE JoinSplit(_, _)
JoinSplit(t, i) ==
    IF i > Len(t) THEN <<>>
    ELSE (IF t[i].c # "space" THEN <<t[i]>>
          ELSE IF /\ i > 1 /\ t[i - 1].c # "space"
                  /\ \E k \in (i + 1)..Len(t) : t[k].c # "space"
          THEN <<[c |-> "space", n |-> 1]>>
          ELSE <<>>) \o JoinSplit(t, i + 1)

\* text[:k]
RECURSIVE Take(_, _)
Take(t, k) ==
    IF t = <<>> \/ k = 0 THEN <<>>
    ELSE IF Head(t).n <= k THEN <<Head(t)>> \o Take(Tail(t), k - Head(t).n)
    ELSE <<[Head(t) EXCEPT !.n = k]>>

\* "..."
Ellipsis == [c |-> "dot", n |-> 3]

\* text.strip()
RECURSIVE Strip(_)
Strip(t) ==
    IF t = <<>> THEN <<>>
    ELSE IF Head(t).c = "space" THEN Strip(Tail(t))
    ELSE IF t[Len(t)].c = "space" THEN Strip(SubSeq(t, 1, Len(t) - 1))
    ELSE t

\* clean_text up to line 52: the text before its length is looked at
Sanitized(t) == JoinSplit(RemoveTokens(t), 1)

\* mutant of clean_text: a text of exactly MaxLength characters is cut too
clean_text_mut(t) ==
    LET s == Sanitized(t)
    IN Strip(IF Length(s) >= MaxLength
             THEN Take(s, MaxLength - 1) \o <<Ellipsis>> ELSE s)

\* TTSHandler.clean_text, lines 36-58
clean_text(t) ==
    LET s == Sanitized(t)
    IN Strip(IF Length(s) > MaxLength
             THEN Take(s, MaxLength) \o <<Ellipsis>> ELSE s)

\* what edge_tts does with a request: it streams audio, it streams nothing,
\* or it raises (network error, time-out, unknown voice)
Providers == {"audio", "empty", "raise"}

\* mutant of generate_tts: the test of lines 86-88 is missing, the bytes
\* collected are returned as they are
generate_tts_mut(t, p) ==
    LET clean == clean_text(t)
    IN IF clean = <<>> THEN [val |-> "None", sent |-> <<>>, raised |-> FALSE]
       ELSE IF p = "raise" THEN [val |-> "None", sent |-> clean, raised |-> FALSE]
       ELSE [val |-> p, sent |-> clean, raised |-> FALSE]

\* TTSHandler.generate_tts, lines 60-95, with a provider that behaves as p:
\* val is what it returns ("None", or "audio" for non-empty bytes), sent is
\* the text the provider was called with (<<>>: it was not called), raised
\* tells whether an exception leaves the function
generate_tts(t, p) ==
    LET clean == clean_text(t)
    IN IF clean = <<>> THEN [val |-> "None", sent |-> <<>>, raised |-> FALSE]
       ELSE IF p = "raise" THEN [val |-> "None", sent |-> clean, raised |-> FALSE]
       ELSE IF p = "empty" THEN [val |-> "None", sent |-> clean, raised |-> FALSE]
       ELSE [val |-> "audio", sent |-> clean, raised |-> FALSE]

\* `if audio_data:`, bot.py line 201
Truthy(val) == val \notin {"None", "empty"}

\* ------------------------------------------------------------- on_message
\* the members that write messages: ana and beto are target users, beto has
\* a voice of their own, caro is a target user who is silenced, dani is no
\* target user, tts is another bot
Users == {"ana", "beto", "caro", "dani", "tts"}

target_users == {"ana", "beto", "caro", "tts"}

silenced_users == {"caro"}

\* self.user_voices.get(display_name, None)
user_voices(u) == IF u = "beto" THEN "es-MX-DaliaNeural" ELSE "None"

\* message.content: nothing but white space, a command (it starts with the
\* command prefix), a text of which clean_text leaves nothing, a text
Contents == {"blank", "command", "tokens", "words"}

\* a text of the kind `content`, as it reaches generate_tts
TextOf(content) ==
    IF content = "words" THEN <<[c |-> "letter", n |-> 2]>>
    ELSE IF content = "tokens" THEN <<[c |-> "mention", n |-> 2]>>
    ELSE <<>>

\* the handler ended: what it did with the message
\* and what it sent to the channel of the message ("none": nothing)
Handled(r, what, reply) ==
    [op |-> "on_message", room |-> r, val |-> what, via |-> reply]

\* mutant of Routed: the test of lines 164-167 is missing
Routed_mut(r, u, content, vch, tc) ==
    /\ u # "tts"
    /\ content # "command"
    /\ u \in target_users
    /\ u \notin silenced_users
    /\ content # "blank"
    /\ vch # 0
    /\ IsConnected(r)
    /\ voice_text_channels[r] # 0
    /\ tc = voice_text_channels[r]

\* on_message, lines 112-177: the message is for the speech path
Routed(r, u, content, vch, tc) ==
    /\ u # "tts"
    /\ content # "command"
    /\ u \in target_users
    /\ u \notin silenced_users
    /\ content # "blank"
    /\ vch # 0
    /\ IsConnected(r)
    /\ conn[r].ch = vch
    /\ voice_text_channels[r] # 0
    /\ tc = voice_text_channels[r]

\* on_message(message), bot.py lines 112-195, up to its first suspension or
\* its return: u is the author, vch the voice channel the author is in (0:
\* none), tc the text channel of the message; a message that is not for the
\* speech path is logged and changes nothing. Every message has a handler
\* task of its own: a message can come while handlers of earlier messages of
\* the guild await their syntheses
on_message(r, u, content, vch, tc) ==
    /\ enqT[r].pc \in {"idle", "synth"} /\ in_guild[r]
    /\ Len(msg[r]) < MaxHandlers
    /\ Routed(r, u, content, vch, tc)
    /\ IF clean_text(TextOf(content)) = <<>>
       THEN \* generate_tts returns None at line 68 without suspending; the
            \* voice is set and set back, lines 190-199
            /\ ret' = Handled(r, "no audio", "none")
            /\ UNCHANGED <<enqT, voice, msg>>
       ELSE \* await generate_tts: the request is made with the voice that
            \* is set now, line 75
            LET user_voice == user_voices(u)
                used == IF user_voice # "None" THEN user_voice ELSE voice
            IN /\ voice' = used
               /\ msg' = [msg EXCEPT ![r] = Append(@,
                       [user |-> u,
                        orig |-> IF user_voice # "None" THEN voice ELSE "none",
                        used |-> used,
                        ch |-> vch,
                        late |-> FALSE])]
               /\ enqT' = [enqT EXCEPT ![r] =
                       [pc |-> "synth", ch |-> vch, job |-> 0, vc |-> "none"]]
               /\ ret' = NoRet
    /\ UNCHANGED <<conn, vcPlaying, hasQueue, audio_queue, playing,
                   voice_text_channels, workers, joinT, leaveT, nextJob,
                   accepted, handed, in_guild, left, jobCh, jobAudio, text, result>>

\* handler i of the guild can resume: generate_tts is awaited at line 195
Awaiting(r, i) ==
    /\ i \in DOMAIN msg[r]
    /\ enqT[r].pc \in {"idle", "synth"}

\* lines 197-199: set_voice(original_voice) if the author has a voice
Restored(r, i) == IF msg[r][i].orig # "none" THEN msg[r][i].orig ELSE voice

\* the handlers that still await once handler i has resumed
Without(s, i) == SubSeq(s, 1, i - 1) \o SubSeq(s, i + 1, Len(s))

\* history: handler i has put its job in the queue, the handlers of the
\* messages that came before it and still await are overtaken
Overtaken(s, i) == [k \in DOMAIN s |-> IF k < i THEN [s[k] EXCEPT !.late = TRUE]
                                                ELSE s[k]]

\* mutant of synth_failed: play_audio is called whatever generate_tts
\* returned
synth_failed_mut(r, i) ==
    /\ Awaiting(r, i)
    /\ voice' = Restored(r, i)
    /\ msg' = [msg EXCEPT ![r] = Without(@, i)]
    /\ PlayAudio(r, msg[r][i].ch)
    /\ jobCh' = [jobCh EXCEPT ![nextJob] = msg[r][i].ch]
    /\ jobAudio' = [jobAudio EXCEPT ![nextJob] = "None"]
    /\ UNCHANGED <<text, result>>

\* generate_tts is back with nothing to play: lines 197-199 and 210-211,
\* the failure is logged and nothing is enqueued
synth_failed(r, i) ==
    /\ Awaiting(r, i)
    /\ \E p \in Providers : ~Truthy(generate_tts(TextOf("words"), p).val)
    /\ voice' = Restored(r, i)
    /\ msg' = [msg EXCEPT ![r] = Without(@, i)]
    /\ enqT' = [enqT EXCEPT ![r] = IdleEnq]
    /\ ret' = Handled(r, "no audio", "none")
    /\ UNCHANGED <<conn, vcPlaying, hasQueue, audio_queue, playing,
                   voice_text_channels, workers, joinT, leaveT, nextJob,
                   accepted, handed, in_guild, left, jobCh, jobAudio, text, result>>

\* generate_tts is back with audio: lines 197-208, play_audio is called with
\* the channel the author was in when the message came
synth_done(r, i) ==
    /\ Awaiting(r, i)
    /\ \E p \in Providers :
            LET audio_data == generate_tts(TextOf("words"), p).val
            IN /\ Truthy(audio_data)
               /\ jobAudio' = [jobAudio EXCEPT ![nextJob] = audio_data]
    /\ voice' = Restored(r, i)
    /\ msg' = [msg EXCEPT ![r] =
            IF IsConnected(r) /\ conn[r].ch = msg[r][i].ch
            THEN Without(Overtaken(@, i), i)
            ELSE Without(@, i)]
    /\ PlayAudio(r, msg[r][i].ch)
    /\ jobCh' = [jobCh EXCEPT ![nextJob] = msg[r][i].ch]
    /\ UNCHANGED <<text, result>>

\* ------------------------------------------------------------ environment
\* the voice connection is dropped from outside (kicked, network loss):
\* the client cleans itself up and guild.voice_client becomes None
ConnectionDrop(r) ==
    /\ IsConnected(r)
    /\ conn' = [conn EXCEPT ![r] = NoConn]
    /\ DisconnectEffects(r)
    /\ joinT' = [joinT EXCEPT ![r] = TaskVcDead(@)]
    /\ enqT' = [enqT EXCEPT ![r] = TaskVcDead(@)]
    /\ UNCHANGED <<hasQueue, audio_queue, playing, voice_text_channels, leaveT,
                   nextJob, accepted, handed, in_guild>>
    /\ ret' = NoRet
    /\ UNCHANGED <<left, jobCh, aux>>

\* the bot is removed from the guild: get_guild(guild_id) returns None from
\* now on and the guild's voice client is gone
GuildRemove(r) ==
    /\ in_guild[r]
    /\ in_guild' = [in_guild EXCEPT ![r] = FALSE]
    /\ conn' = [conn EXCEPT ![r] = IF IsConnected(r) THEN NoConn ELSE @]
    /\ IF IsConnected(r)
       THEN /\ DisconnectEffects(r)
            /\ joinT' = [joinT EXCEPT ![r] = TaskVcDead(@)]
            /\ enqT' = [enqT EXCEPT ![r] = TaskVcDead(@)]
       ELSE UNCHANGED <<vcPlaying, workers, joinT, enqT>>
    /\ UNCHANGED <<hasQueue, audio_queue, playing, voice_text_channels, leaveT,
                   nextJob, accepted, handed>>
    /\ ret' = NoRet
    /\ UNCHANGED <<left, jobCh, aux>>

\* --------------------------------------------- _process_audio_queue task
Tasks(r) == BagToSet(workers[r])

Replace(r, w, w2) == workers' = [workers EXCEPT ![r] = (@ (-) One(w)) (+) One(w2)]

\* back at `while guild_id in self.audio_queue`: wait on the registered
\* queue, or leave the loop and end the task
Iterate(r, w) ==
    IF hasQueue[r]
    THEN Replace(r, w, [pc |-> "get", item |-> 0, vc |-> "none", q |-> "live"])
    ELSE workers' = [workers EXCEPT ![r] = @ (-) One(w)]

\* the task created by create_task runs for the first time
worker_start(r, w) ==
    /\ w.pc = "start"
    /\ Iterate(r, w)
    /\ UNCHANGED <<conn, vcPlaying, hasQueue, audio_queue, playing,
                   voice_text_channels, joinT, leaveT, enqT, nextJob,
                   accepted, handed, in_guild>>
    /\ ret' = NoRet
    /\ UNCHANGED <<left, jobCh, aux>>

\* queue.get() returns the oldest item
worker_get(r, w) ==
    /\ w.pc = "get" /\ w.q = "live"
    /\ audio_queue[r] # <<>>
    /\ audio_queue' = [audio_queue EXCEPT ![r] = Tail(@)]
    /\ Replace(r, w, [w EXCEPT !.pc = "got", !.item = Head(audio_queue[r])])
    /\ UNCHANGED <<conn, vcPlaying, hasQueue, playing, voice_text_channels,
                   joinT, leaveT, enqT, nextJob, accepted, handed, in_guild>>
    /\ ret' = NoRet
    /\ UNCHANGED <<left, jobCh, aux>>

\* asyncio.TimeoutError after 300 s on an empty queue, lines 196-205
worker_timeout(r, w) ==
    /\ w.pc = "get"
    /\ w.q = "dead" \/ audio_queue[r] = <<>>
    /\ IF hasQueue[r] /\ audio_queue[r] = <<>>
       THEN Replace(r, w, [w EXCEPT !.pc = "grace", !.q = "none"])
       ELSE Iterate(r, w)
    /\ UNCHANGED <<conn, vcPlaying, hasQueue, audio_queue, playing,
                   voice_text_channels, joinT, leaveT, enqT, nextJob,
                   accepted, handed, in_guild>>
    /\ ret' = NoRet
    /\ UNCHANGED <<left, jobCh, aux>>

\* mutant of worker_grace: after the sleep the task leaves the loop without
\* looking at the queue again
worker_grace_mut(r, w) ==
    /\ w.pc = "grace"
    /\ workers' = [workers EXCEPT ![r] = @ (-) One(w)]
    /\ UNCHANGED <<conn, vcPlaying, hasQueue, audio_queue, playing,
                   voice_text_channels, joinT, leaveT, enqT, nextJob,
                   accepted, handed, in_guild>>
    /\ ret' = NoRet
    /\ UNCHANGED <<left, jobCh, aux>>

\* mutant of worker_grace: the task that stops takes the queue of the guild
\* and its binding with it
worker_grace_unregisters(r, w) ==
    /\ w.pc = "grace"
    /\ IF hasQueue[r] /\ audio_queue[r] = <<>>
       THEN /\ workers' = [workers EXCEPT ![r] = @ (-) One(w)]
            /\ hasQueue' = [hasQueue EXCEPT ![r] = FALSE]
            /\ playing' = [playing EXCEPT ![r] = "absent"]
            /\ voice_text_channels' = [voice_text_channels EXCEPT ![r] = 0]
       ELSE /\ Iterate(r, w)
            /\ UNCHANGED <<hasQueue, playing, voice_text_channels>>
    /\ UNCHANGED <<conn, vcPlaying, audio_queue, joinT, leaveT, enqT, nextJob,
                   accepted, handed, in_guild>>
    /\ ret' = NoRet
    /\ UNCHANGED <<left, jobCh, aux>>

\* after asyncio.sleep(10), lines 202-205
worker_grace(r, w) ==
    /\ w.pc = "grace"
    /\ IF hasQueue[r] /\ audio_queue[r] = <<>>
       THEN workers' = [workers EXCEPT ![r] = @ (-) One(w)]
       ELSE Iterate(r, w)
    /\ UNCHANGED <<conn, vcPlaying, hasQueue, audio_queue, playing,
                   voice_text_channels, joinT, leaveT, enqT, nextJob,
                   accepted, handed, in_guild>>
    /\ ret' = NoRet
    /\ UNCHANGED <<left, jobCh, aux>>

\* mutant of PlayAudioData: one player for the whole bot, a clip plays only
\* while no guild's client is playing
PlayAudioData_mut(r, w, vc, failed) ==
    IF vc = "live" /\ (\A r2 \in Rooms : vcPlaying[r2] = 0) /\ ~failed
    THEN /\ vcPlaying' = [vcPlaying EXCEPT ![r] = w.item]
         /\ handed' = [handed EXCEPT ![r] = Append(@, w.item)]
         /\ Replace(r, w, [w EXCEPT !.pc = "playing", !.vc = vc])
    ELSE /\ handed' = [handed EXCEPT ![r] = Append(@, 0 - w.item)]
         /\ Iterate(r, w)
         /\ UNCHANGED vcPlaying

\* _play_audio_data(voice_client, audio_item), up to the wait for the end
\* of the playback; failed = the clip cannot be decoded
PlayAudioData(r, w, vc, failed) ==
    IF vc = "live" /\ vcPlaying[r] = 0 /\ ~failed
    THEN /\ vcPlaying' = [vcPlaying EXCEPT ![r] = w.item]
         /\ handed' = [handed EXCEPT ![r] = Append(@, w.item)]
         /\ Replace(r, w, [w EXCEPT !.pc = "playing", !.vc = vc])
    ELSE \* FFmpeg or voice_client.play raised: logged, item gone
         /\ handed' = [handed EXCEPT ![r] = Append(@, 0 - w.item)]
         /\ Iterate(r, w)
         /\ UNCHANGED vcPlaying

\* mutant of worker_got: an exception of _play_audio_data is not caught, it
\* ends the task
worker_got_mut(r, w, failed) ==
    /\ w.pc = "got"
    /\ IF ~in_guild[r]
       THEN /\ ~failed
            /\ Iterate(r, w)
            /\ UNCHANGED <<audio_queue, vcPlaying, handed>>
       ELSE IF ~IsConnected(r)
       THEN /\ ~failed
            /\ IF hasQueue[r]
               THEN /\ audio_queue' = [audio_queue EXCEPT ![r] = Append(@, w.item)]
                    /\ Replace(r, w, [w EXCEPT !.pc = "backoff", !.item = 0])
               ELSE /\ Replace(r, w, [w EXCEPT !.pc = "pause", !.item = 0])
                    /\ UNCHANGED audio_queue
            /\ UNCHANGED <<vcPlaying, handed>>
       ELSE IF vcPlaying[r] # 0
       THEN /\ ~failed
            /\ Replace(r, w, [w EXCEPT !.pc = "poll", !.vc = "live"])
            /\ UNCHANGED <<audio_queue, vcPlaying, handed>>
       ELSE IF failed
       THEN /\ handed' = [handed EXCEPT ![r] = Append(@, 0 - w.item)]
            /\ workers' = [workers EXCEPT ![r] = @ (-) One(w)]
            /\ UNCHANGED <<audio_queue, vcPlaying>>
       ELSE /\ PlayAudioData(r, w, "live", failed)
            /\ UNCHANGED audio_queue
    /\ UNCHANGED <<conn, hasQueue, playing, voice_text_channels, joinT, leaveT,
                   enqT, nextJob, accepted, in_guild>>
    /\ ret' = NoRet
    /\ UNCHANGED <<left, jobCh, aux>>

\* mutant of worker_got: the try of line 189 does not catch the KeyError
\* of line 217, it ends the task
worker_got_uncaught(r, w, failed) ==
    /\ w.pc = "got"
    /\ IF ~in_guild[r]
       THEN /\ ~failed
            /\ Iterate(r, w)
            /\ UNCHANGED <<audio_queue, vcPlaying, handed>>
       ELSE IF ~IsConnected(r)
       THEN /\ ~failed
            /\ IF hasQueue[r]
               THEN /\ audio_queue' = [audio_queue EXCEPT ![r] = Append(@, w.item)]
                    /\ Replace(r, w, [w EXCEPT !.pc = "backoff", !.item = 0])
               ELSE /\ workers' = [workers EXCEPT ![r] = @ (-) One(w)]
                    /\ UNCHANGED audio_queue
            /\ UNCHANGED <<vcPlaying, handed>>
       ELSE IF vcPlaying[r] # 0
       THEN /\ ~failed
            /\ Replace(r, w, [w EXCEPT !.pc = "poll", !.vc = "live"])
            /\ UNCHANGED <<audio_queue, vcPlaying, handed>>
       ELSE /\ PlayAudioData(r, w, "live", failed)
            /\ UNCHANGED audio_queue
    /\ UNCHANGED <<conn, hasQueue, playing, voice_text_channels, joinT, leaveT,
                   enqT, nextJob, accepted, in_guild>>
    /\ ret' = NoRet
    /\ UNCHANGED <<left, jobCh, aux>>

\* lines 207-227 with the item just taken from the queue
worker_got(r, w, failed) ==
    /\ w.pc = "got"
    /\ IF ~in_guild[r]
       THEN \* `if not guild: continue`, the item is not put back
            /\ ~failed
            /\ Iterate(r, w)
            /\ UNCHANGED <<audio_queue, vcPlaying, handed>>
       ELSE IF ~IsConnected(r)
       THEN /\ ~failed
            /\ IF hasQueue[r]
               THEN \* put the item back, then asyncio.sleep(2)
                    /\ audio_queue' = [audio_queue EXCEPT ![r] = Append(@, w.item)]
                    /\ Replace(r, w, [w EXCEPT !.pc = "backoff", !.item = 0])
               ELSE \* KeyError, caught at line 229, then asyncio.sleep(1)
                    /\ Replace(r, w, [w EXCEPT !.pc = "pause", !.item = 0])
                    /\ UNCHANGED audio_queue
            /\ UNCHANGED <<vcPlaying, handed>>
       ELSE IF vcPlaying[r] # 0
       THEN \* while voice_client.is_playing(): asyncio.sleep(0.5)
            /\ ~failed
            /\ Replace(r, w, [w EXCEPT !.pc = "poll", !.vc = "live"])
            /\ UNCHANGED <<audio_queue, vcPlaying, handed>>
       ELSE /\ PlayAudioData(r, w, "live", failed)
            /\ UNCHANGED audio_queue
    /\ UNCHANGED <<conn, hasQueue, playing, voice_text_channels, joinT, leaveT,
                   enqT, nextJob, accepted, in_guild>>
    /\ ret' = NoRet
    /\ UNCHANGED <<left, jobCh, aux>>
\* mutant of worker_poll: the poll loop `while voice_client.is_playing()`
\* is left while the client is still playing
worker_poll_mut(r, w, failed) ==
    /\ w.pc = "poll"
    /\ PlayAudioData(r, w, w.vc, failed)
    /\ UNCHANGED <<conn, hasQueue, audio_queue, playing, voice_text_channels,
                   joinT, leaveT, enqT, nextJob, accepted, in_guild>>
    /\ ret' = NoRet
    /\ UNCHANGED <<left, jobCh, aux>>

\* the held voice client reports is_playing() = False: leave the poll loop
worker_poll(r, w, failed) ==
    /\ w.pc = "poll"
    /\ ~(w.vc = "live" /\ vcPlaying[r] # 0)
    /\ PlayAudioData(r, w, w.vc, failed)
    /\ UNCHANGED <<conn, hasQueue, audio_queue, playing, voice_text_channels,
                   joinT, leaveT, enqT, nextJob, accepted, in_guild>>
    /\ ret' = NoRet
    /\ UNCHANGED <<left, jobCh, aux>>

\* the `after` callback has set playback_done: the clip ended or was stopped
worker_play_done(r, w) ==
    /\ w.pc = "playing"
    /\ vcPlaying' = [vcPlaying EXCEPT ![r] =
            IF w.vc = "live" /\ @ = w.item THEN 0 ELSE @]
    /\ Iterate(r, w)
    /\ UNCHANGED <<conn, hasQueue, audio_queue, playing, voice_text_channels,
                   joinT, leaveT, enqT, nextJob, accepted, handed, in_guild>>
    /\ ret' = NoRet
    /\ UNCHANGED <<left, jobCh, aux>>

\* mutant of worker_play_timeout: the clip that timed out is put back in
\* the queue
worker_play_timeout_requeues(r, w) ==
    /\ w.pc = "playing"
    /\ vcPlaying' = [vcPlaying EXCEPT ![r] = IF w.vc = "live" THEN 0 ELSE @]
    /\ audio_queue' = [audio_queue EXCEPT ![r] = IF hasQueue[r] THEN Append(@, w.item) ELSE @]
    /\ Iterate(r, w)
    /\ UNCHANGED <<conn, hasQueue, playing, voice_text_channels,
                   joinT, leaveT, enqT, nextJob, accepted, handed, in_guild>>
    /\ ret' = NoRet
    /\ UNCHANGED <<left, jobCh, aux>>

\* 60 s without playback_done: voice_client.stop(), lines 281-284
worker_play_timeout(r, w) ==
    /\ w.pc = "playing"
    /\ vcPlaying' = [vcPlaying EXCEPT ![r] = IF w.vc = "live" THEN 0 ELSE @]
    /\ Iterate(r, w)
    /\ UNCHANGED <<conn, hasQueue, audio_queue, playing, voice_text_channels,
                   joinT, leaveT, enqT, nextJob, accepted, handed, in_guild>>
    /\ ret' = NoRet
    /\ UNCHANGED <<left, jobCh, aux>>

\* asyncio.sleep(2) after a re-queue, asyncio.sleep(1) after an exception
worker_wake(r, w) ==
    /\ w.pc \in {"backoff", "pause"}
    /\ Iterate(r, w)
    /\ UNCHANGED <<conn, vcPlaying, hasQueue, audio_queue, playing,
                   voice_text_channels, joinT, leaveT, enqT, nextJob,
                   accepted, handed, in_guild>>
    /\ ret' = NoRet
    /\ UNCHANGED <<left, jobCh, aux>>

\* ------------------------------------------------------------ specification
Next ==
    \/ \E r \in Rooms, ch \in Channels, tc \in TextChannels : join_channel(r, ch, tc)
    \/ \E r \in Rooms, ok \in BOOLEAN, tc \in TextChannels : join_connected(r, ok, tc)
    \/ \E r \in Rooms, ok \in BOOLEAN, tc \in TextChannels : join_moved(r, ok, tc)
    \/ \E r \in Rooms : leave_channel(r)
    \/ \E r \in Rooms, ok \in BOOLEAN : leave_disconnected(r, ok)
    \/ \E r \in Rooms, ch \in Channels : play_audio(r, ch)
    \/ \E r \in Rooms, ok \in BOOLEAN : play_audio_connected(r, ok)
    \/ \E r \in Rooms, ok \in BOOLEAN : play_audio_moved(r, ok)
    \/ \E r \in Rooms : ConnectionDrop(r)
    \/ \E r \in Rooms : GuildRemove(r)
    \/ \E r \in Rooms : \E w \in Tasks(r) : worker_start(r, w)
    \/ \E r \in Rooms : \E w \in Tasks(r) : worker_get(r, w)
    \/ \E r \in Rooms : \E w \in Tasks(r) : worker_timeout(r, w)
    \/ \E r \in Rooms : \E w \in Tasks(r) : worker_grace(r, w)
    \/ \E r \in Rooms : \E w \in Tasks(r), failed \in BOOLEAN : worker_got(r, w, failed)
    \/ \E r \in Rooms : \E w \in Tasks(r), failed \in BOOLEAN : worker_poll(r, w, failed)
    \/ \E r \in Rooms : \E w \in Tasks(r) : worker_play_done(r, w)
    \/ \E r \in Rooms : \E w \in Tasks(r) : worker_play_timeout(r, w)
    \/ \E r \in Rooms : \E w \in Tasks(r) : worker_wake(r, w)

Spec == Init /\ [][Next]_vars

TypeOK ==
    /\ \A r \in Rooms : conn[r].st \in {"none", "connecting", "connected", "closing"}
    /\ \A r \in Rooms : hasQueue[r] <=> playing[r] = "False"
    /\ \A r \in Rooms : NumWorkers(r) <= MaxWorkers
\* ------------------------------------------------------------------ helpers
Range(q) == {q[i] : i \in 1..Len(q)}

Abs(x) == IF x < 0 THEN 0 - x ELSE x

IsPositive(x) == x > 0

\* jobs of guild r whose playback started, in the order it started
Started(r) == SelectSeq(handed[r], IsPositive)

\* position of job j in sequence q, 0 when absent
Pos(q, j) == IF j \in Range(q) THEN CHOOSE i \in 1..Len(q) : q[i] = j ELSE 0

JobIds == 1..MaxJobs

\* a task of guild r holds job j, taken from the queue and not yet passed on
HeldUnplayed(r, j) == \E w \in Tasks(r) : w.item = j /\ w.pc \in {"got", "poll"}

\* ------------------------------------------------------------------- claims

\* C1: in every reachable state each guild has at most one live queue
\* processor task.
C1_AtMostOneWorker == \A r \in Rooms : NumWorkers(r) <= 1

\* C2: jobs of a guild start playback in the order in which play_audio
\* accepted them.
C2_StartOrderIsAcceptOrder ==
    \A r \in Rooms : \A i, k \in 1..Len(Started(r)) :
        i < k => Pos(accepted[r], Started(r)[i]) < Pos(accepted[r], Started(r)[k])

\* C3: whenever play_audio returns True for a guild, a queue processor task
\* of that guild is alive at that moment.
C3_AcceptedImpliesWorker ==
    [][\A r \in Rooms : accepted'[r] # accepted[r] => NumWorkers(r)' >= 1]_vars
\* ------------------------------------------------------------------ fairness
\* the event loop runs every task that is ready: a step of a queue
\* processor task that stays possible is eventually taken
WorkerNext(r) ==
    \E w \in Tasks(r) :
        \/ worker_start(r, w) \/ worker_get(r, w) \/ worker_timeout(r, w)
        \/ worker_grace(r, w) \/ worker_play_done(r, w) \/ worker_wake(r, w)
        \/ \E failed \in BOOLEAN : worker_got(r, w, failed) \/ worker_poll(r, w, failed)

\* an awaited connect, move or disconnect eventually returns
RequestNext(r) ==
    \E ok \in BOOLEAN :
        \/ \E tc \in TextChannels : join_connected(r, ok, tc) \/ join_moved(r, ok, tc)
        \/ leave_disconnected(r, ok)
        \/ play_audio_connected(r, ok) \/ play_audio_moved(r, ok)

FairSpec ==
    /\ Init /\ [][Next]_vars
    /\ \A r \in Rooms : WF_vars(WorkerNext(r)) /\ WF_vars(RequestNext(r))

\* job j of guild r was passed to _play_audio_data
Handed(r, j) == j \in Range(handed[r]) \/ (0 - j) \in Range(handed[r])

\* C4: a job accepted on a connected guild whose worker has left through the
\* idle timeout is eventually played, unless a join or a leave is issued or
\* the connection is lost first.
C4_PlayedAfterIdleExit ==
    \A r \in Rooms : \A j \in JobIds :
        (/\ ret = [op |-> "play_audio", room |-> r, val |-> "True", via |-> "same"]
         /\ IsConnected(r) /\ hasQueue[r] /\ NumWorkers(r) = 0
         /\ j \in Range(audio_queue[r]))
        ~> (\/ Handed(r, j)
            \/ joinT[r].pc # "idle" \/ ret.op = "join"
            \/ leaveT[r] # "idle" \/ ret.op = "leave"
            \/ ~IsConnected(r) \/ ~in_guild[r])
\* the last job passed to _play_audio_data in guild r after a step
LastHanded(r) == Abs(handed[r][Len(handed[r])])

\* C5: no job is passed to playback twice, and a job a worker has taken from
\* the queue is either passed to playback or put back in the queue.
C5_ConsumedExactlyOnce ==
    /\ [](\A r \in Rooms : \A i, k \in 1..Len(handed[r]) :
            i # k => Abs(handed[r][i]) # Abs(handed[r][k]))
    /\ [][\A r \in Rooms : \A j \in JobIds :
            (HeldUnplayed(r, j) /\ ~HeldUnplayed(r, j)')
                => (Handed(r, j)' \/ j \in Range(audio_queue'[r]))]_vars

\* ------------------------------------------------------ one voice session
\* the voice session of a guild up to its leave command, while the bot stays
\* a member of the guild: joins, play_audio calls, dropped connections and
\* every step of the queue processors
NextSession ==
    \/ \E r \in Rooms, ch \in Channels, tc \in TextChannels : join_channel(r, ch, tc)
    \/ \E r \in Rooms, ok \in BOOLEAN, tc \in TextChannels : join_connected(r, ok, tc)
    \/ \E r \in Rooms, ok \in BOOLEAN, tc \in TextChannels : join_moved(r, ok, tc)
    \/ \E r \in Rooms, ch \in Channels : play_audio(r, ch)
    \/ \E r \in Rooms, ok \in BOOLEAN : play_audio_connected(r, ok)
    \/ \E r \in Rooms, ok \in BOOLEAN : play_audio_moved(r, ok)
    \/ \E r \in Rooms : ConnectionDrop(r)
    \/ \E r \in Rooms : \E w \in Tasks(r) : worker_start(r, w)
    \/ \E r \in Rooms : \E w \in Tasks(r) : worker_get(r, w)
    \/ \E r \in Rooms : \E w \in Tasks(r) : worker_timeout(r, w)
    \/ \E r \in Rooms : \E w \in Tasks(r) : worker_grace(r, w)
    \/ \E r \in Rooms : \E w \in Tasks(r), failed \in BOOLEAN : worker_got(r, w, failed)
    \/ \E r \in Rooms : \E w \in Tasks(r), failed \in BOOLEAN : worker_poll(r, w, failed)
    \/ \E r \in Rooms : \E w \in Tasks(r) : worker_play_done(r, w)
    \/ \E r \in Rooms : \E w \in Tasks(r) : worker_play_timeout(r, w)
    \/ \E r \in Rooms : \E w \in Tasks(r) : worker_wake(r, w)

SpecSession == Init /\ [][NextSession]_vars

\* C6: a worker calls voice_client.play only while that client reports not
\* playing, and a playback starts only when nothing is playing on the guild's
\* connection.
C6_PlayOnlyWhenFree ==
    [][\A r \in Rooms :
        Len(handed'[r]) > Len(handed[r]) =>
            /\ \A w \in Tasks(r) :
                    w.item = LastHanded(r)' =>
                        ~(/\ vcPlaying[r] # 0
                          /\ IF w.pc = "got" THEN IsConnected(r) ELSE w.vc = "live")
            /\ handed'[r][Len(handed'[r])] > 0 =>
                    vcPlaying[r] = 0 /\ vcPlaying'[r] = LastHanded(r)']_vars

\* two playbacks have started one after the other in a guild that has two
\* live workers, and a clip is playing
C6_Witness ==
    \E r \in Rooms :
        Len(Started(r)) >= 2 /\ NumWorkers(r) >= 2 /\ vcPlaying[r] # 0

\* C7: join on a guild already connected to the requested channel returns the
\* existing handle and changes neither the connection, nor the queue, nor the
\* workers.
C7_JoinSameChannelIdempotent ==
    [][\A r \in Rooms :
        (IsConnected(r) /\ joinT[r].pc = "idle") =>
            \A tc \in TextChannels :
                join_channel(r, conn[r].ch, tc) =>
                    /\ ret'.op = "join" /\ ret'.val = "handle"
                    /\ conn' = conn /\ vcPlaying' = vcPlaying
                    /\ hasQueue' = hasQueue /\ audio_queue' = audio_queue
                    /\ workers' = workers]_vars

\* a join on the channel the guild is connected to has returned while a job
\* is pending and a worker is alive
C7_Witness ==
    \E r \in Rooms :
        /\ ret = [op |-> "join", room |-> r, val |-> "handle", via |-> "same"]
        /\ IsConnected(r) /\ audio_queue[r] # <<>> /\ NumWorkers(r) >= 1

\* C8: join on a guild connected to another channel moves the connection to
\* the requested channel and changes neither the queue nor the workers.
C8_JoinOtherChannelMoves ==
    [][\A r \in Rooms :
        /\ (IsConnected(r) /\ joinT[r].pc = "idle") =>
             \A ch \in Channels \ {conn[r].ch} : \A tc \in TextChannels :
                join_channel(r, ch, tc) =>
                    /\ joinT'[r].pc = "move" /\ joinT'[r].ch = ch
                    /\ hasQueue' = hasQueue /\ audio_queue' = audio_queue
                    /\ playing' = playing /\ workers' = workers
        /\ joinT[r].pc = "move" =>
             \A ok \in BOOLEAN : \A tc \in TextChannels :
                join_moved(r, ok, tc) =>
                    /\ hasQueue' = hasQueue /\ audio_queue' = audio_queue
                    /\ playing' = playing /\ workers' = workers
                    /\ (ok /\ joinT[r].vc = "live") =>
                         conn'[r] = [st |-> "connected", ch |-> joinT[r].ch]]_vars

\* a join has moved the connection to another channel while a job is pending
\* and a worker is alive
C8_Witness ==
    \E r \in Rooms :
        /\ ret = [op |-> "join", room |-> r, val |-> "handle", via |-> "move"]
        /\ IsConnected(r) /\ audio_queue[r] # <<>> /\ NumWorkers(r) >= 1
\* ------------------------------------------------- several guilds at once
\* the connection life cycle in two guilds at once: joins, leaves and dropped
\* connections, the commands of the guilds interleaving freely, one queue
\* processor per guild, no jobs
RoomsScope == \A r \in Rooms : NumWorkers(r) <= 1

NextRooms ==
    /\ \/ \E r \in Rooms, ch \in Channels, tc \in TextChannels : join_channel(r, ch, tc)
       \/ \E r \in Rooms, ok \in BOOLEAN, tc \in TextChannels : join_connected(r, ok, tc)
       \/ \E r \in Rooms, ok \in BOOLEAN, tc \in TextChannels : join_moved(r, ok, tc)
       \/ \E r \in Rooms : leave_channel(r)
       \/ \E r \in Rooms, ok \in BOOLEAN : leave_disconnected(r, ok)
       \/ \E r \in Rooms : ConnectionDrop(r)
       \/ \E r \in Rooms : \E w \in Tasks(r) : worker_start(r, w)
       \/ \E r \in Rooms : \E w \in Tasks(r) : worker_timeout(r, w)
       \/ \E r \in Rooms : \E w \in Tasks(r) : worker_grace(r, w)
    /\ RoomsScope'

SpecRooms == InitRooms /\ [][NextRooms]_vars

\* C9: leave on a guild that is not connected returns without error and
\* changes the voice connection of no guild.
C9_LeaveNotConnectedNoOp ==
    [][\A r \in Rooms :
        (leave_channel(r) /\ ~IsConnected(r)) =>
            /\ ret' = [op |-> "leave", room |-> r, val |-> "ok", via |-> "noop"]
            /\ conn' = conn /\ vcPlaying' = vcPlaying]_vars

\* a leave on a guild without connection has returned while another guild
\* is connected
C9_Witness ==
    \E r, r2 \in Rooms :
        /\ r # r2
        /\ ret = [op |-> "leave", room |-> r, val |-> "ok", via |-> "noop"]
        /\ ~IsConnected(r) /\ IsConnected(r2)

\* the step with which the leave command of guild r ends
LeaveEnds(r) ==
    \/ leave_channel(r) /\ ~IsConnected(r)
    \/ \E ok \in BOOLEAN : leave_disconnected(r, ok)

\* C10: when the leave command of a guild ends, the guild has no bound text
\* channel, whether it was connected or not and whether disconnect() failed
\* or not.
C10_LeaveClearsBinding ==
    [][\A r \in Rooms : LeaveEnds(r) => voice_text_channels'[r] = 0]_vars
\* C11: in every reachable state a guild without a voice client has no bound
\* text channel.
C11_NoBindingWithoutConnection ==
    \A r \in Rooms : conn[r] = NoConn => voice_text_channels[r] = 0

\* ------------------------------------------------------- the leave command
\* a voice session with its leave command, while the bot stays a member of
\* the guild, is never asked to change channel and play_audio is called for
\* the channel the guild is connected to with clips that decode: joins,
\* leaves, dropped connections, every step of the queue processors
NextLeave ==
    \/ \E r \in Rooms, ch \in Channels, tc \in TextChannels :
            join_channel(r, ch, tc) /\ joinT'[r].pc # "move"
    \/ \E r \in Rooms, ok \in BOOLEAN, tc \in TextChannels : join_connected(r, ok, tc)
    \/ \E r \in Rooms : leave_channel(r)
    \/ \E r \in Rooms, ok \in BOOLEAN : leave_disconnected(r, ok)
    \/ \E r \in Rooms : play_audio(r, conn[r].ch) /\ IsConnected(r)
    \/ \E r \in Rooms : ConnectionDrop(r)
    \/ \E r \in Rooms : \E w \in Tasks(r) : worker_start(r, w)
    \/ \E r \in Rooms : \E w \in Tasks(r) : worker_get(r, w)
    \/ \E r \in Rooms : \E w \in Tasks(r) : worker_timeout(r, w)
    \/ \E r \in Rooms : \E w \in Tasks(r) : worker_grace(r, w)
    \/ \E r \in Rooms : \E w \in Tasks(r) : worker_got(r, w, FALSE)
    \/ \E r \in Rooms : \E w \in Tasks(r) : worker_poll(r, w, FALSE)
    \/ \E r \in Rooms : \E w \in Tasks(r) : worker_play_done(r, w)
    \/ \E r \in Rooms : \E w \in Tasks(r) : worker_play_timeout(r, w)
    \/ \E r \in Rooms : \E w \in Tasks(r) : worker_wake(r, w)

SpecLeave == Init /\ [][NextLeave]_vars

\* the jobs of guild r that exist: in its queue, held by one of its tasks or
\* carried by a play_audio call that is awaiting the network
Where(r) ==
    (Range(audio_queue[r]) \cup {w.item : w \in Tasks(r)} \cup {enqT[r].job}) \ {0}

\* C12: when leave on a connected guild returns without error the guild has
\* no connection and no registered queue, and the jobs that were in its queue
\* no longer exist; a job that no longer exists never comes back, and only a
\* job held by a worker is ever passed to playback.
C12_LeaveDestroysSession ==
    [][\A r \in Rooms :
        /\ (leaveT[r] = "disconnect" /\ leaveT'[r] = "idle" /\ ret'.val = "ok") =>
                /\ conn'[r] = NoConn /\ ~hasQueue'[r] /\ audio_queue'[r] = <<>>
                /\ Range(audio_queue[r]) \cap Where(r)' = {}
        /\ (audio_queue'[r] # audio_queue[r] \/ workers'[r] # workers[r]
                \/ enqT'[r] # enqT[r]) =>
                Where(r)' \subseteq Where(r) \cup {nextJob}
        /\ handed'[r] # handed[r] =>
                \A j \in JobIds :
                    (Handed(r, j)' /\ ~Handed(r, j)) => HeldUnplayed(r, j)]_vars

\* a leave has just returned without error and a job that play_audio had
\* accepted is gone without having been passed to playback, a worker alive
C12_Witness ==
    \E r \in Rooms : \E j \in Range(accepted[r]) :
        /\ ret = [op |-> "leave", room |-> r, val |-> "ok", via |-> "disconnect"]
        /\ j \notin Where(r) /\ ~Handed(r, j) /\ NumWorkers(r) >= 1
\* ------------------------------------------------------- inbound messages
\* the bot where every play_audio call comes from on_message: a message is
\* authorised, its synthesis is awaited, then play_audio is called; the
\* messages are texts of a target user without a voice of their own and of a
\* member who is no target user, and a message comes when the handler of the
\* message before it has ended
NextMessage ==
    \/ \E r \in Rooms, ch \in Channels, tc \in TextChannels : join_channel(r, ch, tc)
    \/ \E r \in Rooms, ok \in BOOLEAN, tc \in TextChannels : join_connected(r, ok, tc)
    \/ \E r \in Rooms, ok \in BOOLEAN, tc \in TextChannels : join_moved(r, ok, tc)
    \/ \E r \in Rooms : leave_channel(r)
    \/ \E r \in Rooms, ok \in BOOLEAN : leave_disconnected(r, ok)
    \/ \E r \in Rooms, u \in {"ana", "dani"}, vch \in VoiceStates, tc \in TextChannels :
            msg[r] = <<>> /\ on_message(r, u, "words", vch, tc)
    \/ \E r \in Rooms : synth_failed(r, 1)
    \/ \E r \in Rooms : synth_done(r, 1)
    \/ \E r \in Rooms, ok \in BOOLEAN : play_audio_connected(r, ok)
    \/ \E r \in Rooms, ok \in BOOLEAN : play_audio_moved(r, ok)
    \/ \E r \in Rooms : ConnectionDrop(r)
    \/ \E r \in Rooms : GuildRemove(r)
    \/ \E r \in Rooms : \E w \in Tasks(r) : worker_start(r, w)
    \/ \E r \in Rooms : \E w \in Tasks(r) : worker_get(r, w)
    \/ \E r \in Rooms : \E w \in Tasks(r) : worker_timeout(r, w)
    \/ \E r \in Rooms : \E w \in Tasks(r) : worker_grace(r, w)
    \/ \E r \in Rooms : \E w \in Tasks(r), failed \in BOOLEAN : worker_got(r, w, failed)
    \/ \E r \in Rooms : \E w \in Tasks(r), failed \in BOOLEAN : worker_poll(r, w, failed)
    \/ \E r \in Rooms : \E w \in Tasks(r) : worker_play_done(r, w)
    \/ \E r \in Rooms : \E w \in Tasks(r) : worker_play_timeout(r, w)
    \/ \E r \in Rooms : \E w \in Tasks(r) : worker_wake(r, w)

SpecMessage == Init /\ [][NextMessage]_vars

\* a voice client of guild r is connecting or connected
Connects(r) == conn[r].st \in {"connecting", "connected"}

\* C13: once a leave command of a guild has ended and as long as no join
\* command is issued or pending, no connection of the guild is established
\* and no playback starts in it.
C13_NothingNewAfterLeave ==
    [][\A r \in Rooms :
        (left[r] /\ left'[r] /\ joinT[r].pc = "idle") =>
            /\ Connects(r)' => Connects(r)
            /\ Len(Started(r)') = Len(Started(r))]_vars
\* C14: a join command whose connect or move failed leaves the text-channel
\* binding of its guild as it was.
C14_FailedJoinKeepsBinding ==
    [][\A r \in Rooms :
        (ret'.op = "join" /\ ret'.room = r /\ ret'.val = "None") =>
            voice_text_channels'[r] = voice_text_channels[r]]_vars

\* join_voice, bot.py lines 257-264: the reply sent to the requester; the
\* failure reply is sent from the except branch only, and join_channel
\* returns a handle or None without raising
JoinVoiceReply(val) == IF val = "raise" THEN "Failed to join" ELSE "Joined"

\* C15: a join command whose connect or move failed answers the requester
\* with a failure, and creates no queue and no worker for its guild.
C15_FailedJoinSurfaced ==
    [][\A r \in Rooms :
        (ret'.op = "join" /\ ret'.room = r /\ ret'.val = "None") =>
            /\ JoinVoiceReply(ret'.val) = "Failed to join"
            /\ hasQueue'[r] = hasQueue[r]
            /\ workers'[r] = workers[r]]_vars
\* the channels of the voice clients of guild r: the registered client and
\* the client each pending channel.connect() is establishing
ClientChannels(r) ==
    {conn[r].ch : x \in IF Registered(r) THEN {1} ELSE {}}
        \cup {joinT[r].ch : x \in IF joinT[r].pc = "connect" THEN {1} ELSE {}}
        \cup {enqT[r].ch : x \in IF enqT[r].pc = "connect" THEN {1} ELSE {}}

C17_FlagTracksWorker ==
    \A r \in Rooms : (playing[r] = "True") <=> (NumWorkers(r) >= 1)
\* the job of the play_audio call that has just returned True for guild r
LastAccepted(r) == accepted[r][Len(accepted[r])]

NextGuilds ==
    /\ \/ \E r \in Rooms, ch \in Channels, tc \in TextChannels :
            join_channel(r, ch, tc) /\ joinT'[r].pc # "move"
       \/ \E r \in Rooms, ok \in BOOLEAN, tc \in TextChannels : join_connected(r, ok, tc)
       \/ \E r \in Rooms : play_audio(r, conn[r].ch) /\ IsConnected(r)
       \/ \E r \in Rooms : ConnectionDrop(r)
       \/ \E r \in Rooms : \E w \in Tasks(r) : worker_start(r, w)
       \/ \E r \in Rooms : \E w \in Tasks(r) : worker_get(r, w)
       \/ \E r \in Rooms : \E w \in Tasks(r) : worker_got(r, w, FALSE)
       \/ \E r \in Rooms : \E w \in Tasks(r) : worker_play_done(r, w)
       \/ \E r \in Rooms : \E w \in Tasks(r) : worker_wake(r, w)
    /\ RoomsScope'

SpecGuilds == InitRooms /\ [][NextGuilds]_vars

\* everything the bot holds for guild r
Local(r) ==
    <<conn[r], vcPlaying[r], hasQueue[r], audio_queue[r], playing[r],
      voice_text_channels[r], workers[r], joinT[r], leaveT[r], enqT[r],
      accepted[r], handed[r]>>

\* a worker of guild r holds a job and finds its guild connected with a
\* client that is not playing
ReadyToPlay(r, w) ==
    w.pc = "got" /\ in_guild[r] /\ IsConnected(r) /\ vcPlaying[r] = 0

C20_PlaybackFailureIsLocal ==
    [][\A r \in Rooms :
        (handed'[r] # handed[r] /\ handed'[r][Len(handed'[r])] < 0) =>
            /\ ret' = NoRet
            /\ audio_queue'[r] = audio_queue[r]
            /\ hasQueue'[r] = hasQueue[r]
            /\ hasQueue[r] =>
                    /\ NumWorkers(r)' = NumWorkers(r)
                    /\ [pc |-> "get", item |-> 0, vc |-> "none", q |-> "live"]
                            \in Tasks(r)']_vars

\* a job of the guild failed and a job queued behind it is being played
C20_Witness ==
    \E r \in Rooms : \E i, k \in 1..Len(handed[r]) :
        /\ i < k
        /\ handed[r][i] < 0 /\ handed[r][k] > 0
        /\ vcPlaying[r] = handed[r][k]
\* C29: a worker that holds a job and finds its guild without a connected
\* client, the guild's queue being registered, puts the job back at the front
\* of the queue, ahead of the jobs that were behind it, and backs off.
C29_RequeueAtFront ==
    [][\A r \in Rooms : \A w \in Tasks(r) :
        (/\ w.pc = "got" /\ in_guild[r] /\ ~IsConnected(r) /\ hasQueue[r]
         /\ worker_got(r, w, FALSE)) =>
            /\ audio_queue'[r] = <<w.item>> \o audio_queue[r]
            /\ [w EXCEPT !.pc = "backoff", !.item = 0] \in Tasks(r)']_vars
\* a task waiting on the registered queue of its guild
Waiting == [pc |-> "get", item |-> 0, vc |-> "none", q |-> "live"]

Starting(r) ==
    IF Len(Started(r)') > Len(Started(r)) THEN Started(r)'[Len(Started(r)')] ELSE 0

\* C24: when the playback of a job made from a message starts, the voice
\* client of the guild is in the voice channel the author of the message was
\* in when the message was handled.
C24_PlayedWhereRequested ==
    [][\A r \in Rooms :
        Starting(r) # 0 => conn[r].ch = jobCh[Starting(r)]]_vars

\* ---------------------------------------------------------- message router
\* the message path alone: joins, messages of every kind, syntheses and the
\* play_audio calls they make; no job is taken from a queue, and a message
\* comes when the handler of the message before it has ended
NextRouter ==
    \/ \E r \in Rooms, ch \in Channels, tc \in TextChannels : join_channel(r, ch, tc)
    \/ \E r \in Rooms, ok \in BOOLEAN, tc \in TextChannels : join_connected(r, ok, tc)
    \/ \E r \in Rooms, ok \in BOOLEAN, tc \in TextChannels : join_moved(r, ok, tc)
    \/ \E r \in Rooms, u \in Users, content \in Contents, vch \in VoiceStates,
            tc \in TextChannels :
            msg[r] = <<>> /\ on_message(r, u, content, vch, tc)
    \/ \E r \in Rooms : synth_failed(r, 1)
    \/ \E r \in Rooms : synth_done(r, 1)
    \/ \E r \in Rooms, ok \in BOOLEAN : play_audio_connected(r, ok)
    \/ \E r \in Rooms, ok \in BOOLEAN : play_audio_moved(r, ok)
    \/ \E r \in Rooms : ConnectionDrop(r)

SpecRouter == Init /\ [][NextRouter]_vars

\* C21: every job on_message has passed to play_audio, and so every job in a
\* queue, carries audio data: when generate_tts returns nothing, play_audio
\* is not called.
C21_NoJobWithoutAudio ==
    /\ \A j \in 1..(nextJob - 1) : jobAudio[j] = "audio"
    /\ \A r \in Rooms : \A j \in Range(audio_queue[r]) : jobAudio[j] = "audio"

\* a synthesis has just failed in a guild whose queue holds a job
C21_Witness ==
    \E r \in Rooms : /\ ret = Handled(r, "no audio", "none")
                     /\ audio_queue[r] # <<>>
                     /\ nextJob <= MaxJobs

\* C22: when on_message ends because the synthesis of its message gave no
\* audio, it has sent a failure message to the channel of the message.
C22_SynthesisFailureSurfaced ==
    (ret.op = "on_message" /\ ret.val = "no audio") => ret.via # "none"

\* C23: on_message goes on to synthesize and enqueue a message only if, when
\* it looks, the author is a target user and is not silenced, the message has
\* text, the guild has a connected voice client, the author is in the voice
\* channel of that client, and the message was written in the text channel
\* bound to the guild.
C23_RouterAuthorizes ==
    [][\A r \in Rooms :
        Len(msg'[r]) > Len(msg[r]) =>
            \A u \in Users, content \in Contents, vch \in VoiceStates,
               tc \in TextChannels :
                on_message(r, u, content, vch, tc) =>
                    /\ u \in target_users
                    /\ u \notin silenced_users
                    /\ content \notin {"blank", "command"}
                    /\ conn[r].st = "connected"
                    /\ vch = conn[r].ch
                    /\ tc = voice_text_channels[r]]_vars

\* a handler awaits the synthesis of a message of a target user who is in
\* the voice channel of the connected client
C23_Witness ==
    \E r \in Rooms : /\ msg[r] # <<>> /\ msg[r][1].user \in target_users
                     /\ IsConnected(r) /\ conn[r].ch = msg[r][1].ch
                     /\ voice_text_channels[r] \in TextChannels

\* the message path of a bot that is in two guilds, each joined once and
\* never left: the handlers of all messages, up to MaxHandlers at a time in
\* a guild, share the one TTSHandler and resume in any order
NextVoices ==
    \/ \E r \in Rooms, ch \in Channels, tc \in TextChannels :
            ~Registered(r) /\ join_channel(r, ch, tc)
    \/ \E r \in Rooms, ok \in BOOLEAN, tc \in TextChannels : join_connected(r, ok, tc)
    \/ \E r \in Rooms, u \in Users, content \in Contents, vch \in VoiceStates,
            tc \in TextChannels : on_message(r, u, content, vch, tc)
    \/ \E r \in Rooms, i \in 1..MaxHandlers : synth_failed(r, i)
    \/ \E r \in Rooms, i \in 1..MaxHandlers : synth_done(r, i)

SpecVoices == InitRooms /\ [][NextVoices]_vars

\* the voice selected for author u: their own, or the default
VoiceFor(u) == IF user_voices(u) # "None" THEN user_voices(u) ELSE DefaultVoice

\* C25: every message that is being synthesized is synthesized with the
\* voice selected for its author.
C25_VoiceOfAuthor ==
    \A r \in Rooms : \A i \in DOMAIN msg[r] :
        msg[r][i].used = VoiceFor(msg[r][i].user)

\* ------------------------------------------------------- the text functions
\* a text of at most MaxBlocks blocks is given and no function was applied
InitText ==
    /\ InitBase
    /\ in_guild = [r \in Rooms |-> r \in HomeGuilds]
    /\ text \in Texts
    /\ result = NoResult

\* clean_text(text) is called
clean_text_call ==
    /\ result = NoResult
    /\ result' = [fn |-> "clean_text", val |-> clean_text(text)]
    /\ UNCHANGED <<conn, vcPlaying, hasQueue, audio_queue, playing,
                   voice_text_channels, workers, joinT, leaveT, enqT, nextJob,
                   accepted, handed, in_guild, ret, left, jobCh, jobAudio,
                   voice, msg, text>>

\* await generate_tts(text) is called and the provider behaves as p
generate_tts_call(p) ==
    /\ result = NoResult
    /\ result' = [fn |-> "generate_tts", provider |-> p, got |-> generate_tts(text, p)]
    /\ UNCHANGED <<conn, vcPlaying, hasQueue, audio_queue, playing,
                   voice_text_channels, workers, joinT, leaveT, enqT, nextJob,
                   accepted, handed, in_guild, ret, left, jobCh, jobAudio,
                   voice, msg, text>>

NextText ==
    \/ clean_text_call
    \/ \E p \in Providers : generate_tts_call(p)

SpecText == InitText /\ [][NextText]_vars

\* the text ends with the truncation marker
Marked(t) == t # <<>> /\ t[Len(t)] = Ellipsis

\* C26: what clean_text returns has at most MaxLength characters and the
\* three of the marker; the marker is there exactly when the sanitized text
\* had more than MaxLength characters, and then it follows the first
\* MaxLength of them; a sanitized text that is not longer is returned whole.
C26_TruncatedAtMaxLength ==
    result.fn = "clean_text" =>
        LET s == Sanitized(text)
            out == result.val
        IN /\ Length(out) <= MaxLength + Ellipsis.n
           /\ Marked(out) <=> Length(s) > MaxLength
           /\ Length(s) > MaxLength => out = Take(s, MaxLength) \o <<Ellipsis>>
           /\ Length(s) <= MaxLength => out = s

\* clean_text was given a text that is one character too long once the
\* tokens and the extra white space are gone
C26_Witness ==
    /\ result.fn = "clean_text"
    /\ Length(text) > MaxLength + 1
    /\ Length(Sanitized(text)) = MaxLength + 1
    /\ Length(result.val) = MaxLength + Ellipsis.n

\* C27: generate_tts returns None, and raises nothing, when clean_text
\* leaves nothing of the text (and then the provider is not called), when
\* the provider streams no audio and when the provider raises; it never
\* returns an empty clip.
C27_SynthesisFailureIsNone ==
    result.fn = "generate_tts" =>
        /\ ~result.got.raised
        /\ result.got.val # "empty"
        /\ clean_text(text) = <<>> =>
                result.got.val = "None" /\ result.got.sent = <<>>
        /\ result.provider \in {"empty", "raise"} => result.got.val = "None"
        /\ result.got.val = "audio" => result.got.sent = clean_text(text)

\* generate_tts has called the provider with a text and got no audio
C27_Witness ==
    /\ result.fn = "generate_tts"
    /\ result.provider = "empty"
    /\ result.got.sent # <<>>
    /\ result.got.val = "None"

\* ---------------------------------------------------------- autocorrector
\* Here a text is a sequence of characters.
\* mutant of SUSTITUCIONES: the last entry writes a token of an earlier one
SUSTITUCIONES_mut == <<
    [token |-> <<"x", "d">>, reemplazo |-> <<"X", " ", "D">>],
    [token |-> <<"w", "t", "f", "?">>,
     reemplazo |-> <<"w", "a", "t", "a", "f", "a", "c", "?">>],
    [token |-> <<"w", "t", "f">>, reemplazo |-> <<"w", "a", "t", "a", "f", "a", "c">>],
    [token |-> <<"o", "m", "g">>, reemplazo |-> <<"o", "-", "e", "m", "-", "g", "e">>],
    [token |-> <<"p", "o", "r", "n", "o">>, reemplazo |-> <<"n", "o", "p", "o", "r">>],
    [token |-> <<"h", "i", "t", "l", "e", "r">>, reemplazo |-> <<"o", "m", "g">>] >>

\* SUSTITUCIONES, autocorrector.py lines 4-11, in the order of the dict
SUSTITUCIONES == <<
    [token |-> <<"x", "d">>, reemplazo |-> <<"X", " ", "D">>],
    [token |-> <<"w", "t", "f", "?">>,
     reemplazo |-> <<"w", "a", "t", "a", "f", "a", "c", "?">>],
    [token |-> <<"w", "t", "f">>, reemplazo |-> <<"w", "a", "t", "a", "f", "a", "c">>],
    [token |-> <<"o", "m", "g">>, reemplazo |-> <<"o", "-", "e", "m", "-", "g", "e">>],
    [token |-> <<"p", "o", "r", "n", "o">>, reemplazo |-> <<"n", "o", "p", "o", "r">>],
    [token |-> <<"h", "i", "t", "l", "e", "r">>,
     reemplazo |-> <<"s", "e", "ñ", "o", "r", " ", "d", "e", "l", " ",
                     "b", "i", "g", "o", "t", "e">>] >>

\* ch.isspace()
IsSpace(c) == c = " "

\* re.match(r"\w", ch, re.UNICODE)
IsWordChar(c) == c \notin {" ", "?", "-"}

\* re.IGNORECASE: the character both cases are compared as
Lower(c) == CASE c = "X" -> "x" [] c = "D" -> "d" [] c = "O" -> "o" [] OTHER -> c

\* _flexible_pattern_for(token), lines 13-41: one item per character of the
\* token that is no white space; `pre` and `post` tell whether \s* stands
\* before and after the character; the \s* that ends the pattern is removed
_flexible_pattern_for(token) ==
    LET chars == SelectSeq(token, LAMBDA c : ~IsSpace(c))
    IN [j \in 1..Len(chars) |->
            [lit |-> chars[j],
             pre |-> ~IsWordChar(chars[j]),
             post |-> j < Len(chars)]]

\* the first position at or after i that holds no white space
RECURSIVE SkipSpaces(_, _)
SkipSpaces(t, i) ==
    IF i <= Len(t) /\ IsSpace(t[i]) THEN SkipSpaces(t, i + 1) ELSE i

\* the items j.. of the pattern match t from position i on: the position
\* after the match, 0 if there is none
RECURSIVE MatchFrom(_, _, _, _)
MatchFrom(t, i, pat, j) ==
    IF j > Len(pat) THEN i
    ELSE LET a == IF pat[j].pre THEN SkipSpaces(t, i) ELSE i
         IN IF a <= Len(t) /\ Lower(t[a]) = Lower(pat[j].lit)
            THEN MatchFrom(t, IF pat[j].post THEN SkipSpaces(t, a + 1) ELSE a + 1,
                           pat, j + 1)
            ELSE 0

\* (?<!\w)(?:inner)(?!\w) matches t at position i: the position after the
\* match, 0 if there is none
MatchAt(t, i, pat) ==
    IF i > 1 /\ IsWordChar(t[i - 1]) THEN 0
    ELSE LET e == MatchFrom(t, i, pat, 1)
         IN IF e # 0 /\ ~(e <= Len(t) /\ IsWordChar(t[e])) THEN e ELSE 0

\* regex.sub(reemplazo, t), from position i on: matches are taken from left
\* to right and do not overlap
RECURSIVE Sub(_, _, _, _)
Sub(t, i, pat, reemplazo) ==
    IF i > Len(t) THEN <<>>
    ELSE LET e == MatchAt(t, i, pat)
         IN IF e # 0 THEN reemplazo \o Sub(t, e, pat, reemplazo)
            ELSE <<t[i]>> \o Sub(t, i + 1, pat, reemplazo)

\* the loop of lines 46-51 from entry k of the table on
RECURSIVE Sustituir(_, _, _)
Sustituir(t, table, k) ==
    IF k > Len(table) THEN t
    ELSE Sustituir(Sub(t, 1, _flexible_pattern_for(table[k].token),
                       table[k].reemplazo), table, k + 1)

\* autocorregir_mensaje(texto), lines 43-53
autocorregir_mensaje(texto) == Sustituir(texto, SUSTITUCIONES, 1)

\* the messages: up to MaxPieces of these pieces, one after the other
MaxPieces == 3

Pieces == {<<"x">>, <<"d">>, <<"X", "D">>, <<" ">>, <<"w", "t", "f">>, <<"?">>,
           <<"o">>, <<"m", "g">>, <<"O", "m", "g">>, <<"p", "o", "r">>,
           <<"n", "o">>, <<"p", "o", "r", "n">>, <<"h", "i", "t", "l", "e", "r">>,
           <<"-">>, <<"a">>, <<"w">>, <<"t", "f">>}

RECURSIVE Concat(_)
Concat(ps) == IF ps = <<>> THEN <<>> ELSE Head(ps) \o Concat(Tail(ps))

Messages == {Concat(ps) : ps \in SeqsUpTo(Pieces, MaxPieces)}

InitWords ==
    /\ InitBase
    /\ in_guild = [r \in Rooms |-> r \in HomeGuilds]
    /\ text \in Messages
    /\ result = NoResult

\* autocorregir_mensaje(message.content), bot.py line 179
autocorregir_call ==
    /\ result = NoResult
    /\ result' = [fn |-> "autocorregir_mensaje", val |-> autocorregir_mensaje(text)]
    /\ UNCHANGED <<conn, vcPlaying, hasQueue, audio_queue, playing,
                   voice_text_channels, workers, joinT, leaveT, enqT, nextJob,
                   accepted, handed, in_guild, ret, left, jobCh, jobAudio,
                   voice, msg, text>>

\* autocorregir_mensaje is applied to what it returned
autocorregir_again ==
    /\ result.fn = "autocorregir_mensaje"
    /\ result' = [fn |-> "twice", first |-> result.val,
                  val |-> autocorregir_mensaje(result.val)]
    /\ UNCHANGED <<conn, vcPlaying, hasQueue, audio_queue, playing,
                   voice_text_channels, workers, joinT, leaveT, enqT, nextJob,
                   accepted, handed, in_guild, ret, left, jobCh, jobAudio,
                   voice, msg, text>>

NextWords == autocorregir_call \/ autocorregir_again

SpecWords == InitWords /\ [][NextWords]_vars

\* C28: autocorregir_mensaje applied to its own output changes nothing, and
\* it returns the empty text for the empty text.
C28_NormalizeIdempotent ==
    /\ result.fn = "twice" => result.val = result.first
    /\ (result.fn = "autocorregir_mensaje" /\ text = <<>>) => result.val = <<>>

\* a text in which something was replaced went through the function twice
C28_Witness ==
    /\ result.fn = "twice"
    /\ result.first # text
    /\ result.val = result.first

\* ------------------------------------------------- the queue processor task
\* C31: the step in which a queue processor stops after the idle timeout
\* removes that task and changes nothing else: the voice client, the
\* registered queue, the playing flag and the bound text channel of every
\* guild stay as they are.
C31_IdleExitStopsWorkerOnly ==
    [][\A r \in Rooms : \A w \in Tasks(r) :
        (/\ w.pc = "grace" /\ hasQueue[r] /\ audio_queue[r] = <<>>
         /\ worker_grace(r, w)) =>
            /\ workers'[r] = workers[r] (-) One(w)
            /\ conn' = conn /\ vcPlaying' = vcPlaying
            /\ hasQueue' = hasQueue /\ audio_queue' = audio_queue
            /\ playing' = playing
            /\ voice_text_channels' = voice_text_channels]_vars

\* a connected guild with its queue and its binding, whose only queue
\* processor has stopped
C31_Witness ==
    \E r \in Rooms : /\ IsConnected(r) /\ hasQueue[r] /\ NumWorkers(r) = 0
                     /\ voice_text_channels[r] # 0 /\ playing[r] = "False"

\* some task of guild r holds job j
Held(r, j) == \E w \in Tasks(r) : w.item = j

Paused(w) == [w EXCEPT !.pc = "pause", !.item = 0]

\* C33: the exception a queue processor meets in an iteration (the KeyError
\* of a put on a queue that is gone) does not end the task: the task sleeps
\* and then evaluates the loop condition again; and a task ends only in the
\* step of the idle exit, with the queue registered and empty, or in a step
\* in which it finds no queue registered for its guild.
C33_ExceptionKeepsWorker ==
    [][\A r \in Rooms :
        /\ \A w \in Tasks(r) :
            /\ (/\ w.pc = "got" /\ in_guild[r] /\ ~IsConnected(r) /\ ~hasQueue[r]
                 /\ worker_got(r, w, FALSE)) =>
                    /\ NumWorkers(r)' = NumWorkers(r)
                    /\ Paused(w) \in Tasks(r)'
            /\ (w.pc = "pause" /\ hasQueue[r] /\ worker_wake(r, w)) =>
                    /\ NumWorkers(r)' = NumWorkers(r)
                    /\ Waiting \in Tasks(r)'
        /\ NumWorkers(r)' < NumWorkers(r) =>
            \E w \in Tasks(r) :
                /\ workers'[r] = workers[r] (-) One(w)
                /\ \/ w.pc = "grace" /\ hasQueue[r] /\ audio_queue[r] = <<>>
                   \/ ~hasQueue[r]]_vars

\* a task sleeps after the exception and a queue is registered again
C33_Witness ==
    \E r \in Rooms : \E w \in Tasks(r) : w.pc = "pause" /\ hasQueue[r]

\* C34: a queue processor that a leave has overtaken (it waits on a queue
\* that was deleted, or it sleeps after the KeyError of a put on a deleted
\* queue) does not go on to wait on a queue registered for the guild after
\* that leave, from which it would take the jobs enqueued since.
C34_LeaveStopsWorker ==
    [][\A r \in Rooms : \A w \in Tasks(r) :
        (\/ w.q = "dead" /\ worker_timeout(r, w)
         \/ w.pc = "pause" /\ worker_wake(r, w)) =>
            workers'[r] # (workers[r] (-) One(w)) (+) One(Waiting)]_vars

\* C37: when a leave command returns on a guild whose connection was lost
\* before (no voice client is registered), the queue of the guild holds no
\* job and no task of the guild holds a job or sleeps before its next
\* attempt.
C37_LeaveAfterDropCleansUp ==
    [][\A r \in Rooms :
        (leave_channel(r) /\ conn[r] = NoConn) =>
            /\ audio_queue'[r] = <<>>
            /\ \A w \in Tasks(r)' : w.item = 0 /\ w.pc # "backoff"]_vars

\* C35: whenever no message handler is between its set_voice and its
\* restore (every handler of every guild has finished), the current voice of
\* the shared synthesizer is the one it had before the first handler
\* started, the default voice.
C35_DefaultVoicePreserved ==
    (\A r \in Rooms : msg[r] = <<>>) => voice = DefaultVoice

\* C36: of two messages of a guild that were both accepted for speech, the
\* one that came first is enqueued first: no handler puts its job in the
\* queue after the handler of a message that came later has put its own.
C36_EnqueuedInArrivalOrder ==
    [][\A r \in Rooms : \A i \in DOMAIN msg[r] :
        (/\ IsConnected(r) /\ conn[r].ch = msg[r][i].ch
         /\ synth_done(r, i)) => ~msg[r][i].late]_vars

\* the jobs of the guild that wait to be played: those in the queue and
\* those a task has taken from it and not yet looked at (lines 192-195)
Pending(r) ==
    Len(audio_queue[r])
        + Cardinality({w.item : w \in {v \in Tasks(r) : v.pc = "got"}})

\* C38: in every step during which the guild has no connected voice client
\* and no leave command runs (its queue stays registered), the number of
\* the jobs that wait to be played does not go down, a task that looks at
\* the job it has taken puts it back in the queue, and no task ends while
\* the queue holds a job.
C38_RetriesWithoutBound ==
    [][\A r \in Rooms :
        (/\ ~IsConnected(r) /\ ~IsConnected(r)'
         /\ hasQueue[r] /\ hasQueue'[r]
         /\ leaveT[r] = "idle" /\ leaveT'[r] = "idle") =>
            /\ Pending(r)' >= Pending(r)
            /\ \A w \in Tasks(r) :
                    (w.pc = "got" /\ \E failed \in BOOLEAN : worker_got(r, w, failed))
                        => w.item \in Range(audio_queue'[r])
            /\ audio_queue[r] # <<>> => NumWorkers(r)' >= NumWorkers(r)]_vars
====
